---- MODULE Spec2Model ----
(***************************************************************************)
(* NMEA-AIS-Generator: the AIS payload builders (AISMsgPayloadType1,       *)
(* AISMsgType5), the six-bit armoring done by encode() and the sentence    *)
(* framer NMEAMessage of nmea_msg.py.                                      *)
(*                                                                         *)
(* Bit strings are sequences over {0, 1}; character strings are sequences  *)
(* of ASCII codes.  Decimal inputs (floats in the program) are exact       *)
(* fractions [n |-> numerator, d |-> denominator].                         *)
(***************************************************************************)
EXTENDS Integers, Sequences, FiniteSets, TLC

VARIABLES msg, nmea, call, hist, ship_dimension, ship_eta

vars == <<msg, nmea, call, hist, ship_dimension, ship_eta>>

\* the structured sub-field objects a caller builds on their own
blocks == <<ship_dimension, ship_eta>>

(***************************************************************************)
(* Bounds of the model.                                                    *)
(***************************************************************************)
\* encode() calls modelled per message object (fill_bits grows without bound)
MaxEncodes == 3

\* field assignments modelled per message object
MaxAssign == 1

\* encode() calls modelled per message object when two objects are followed
PairMaxEncodes == 1

(***************************************************************************)
(* Characters.                                                             *)
(***************************************************************************)
Str_AIVDM == <<65, 73, 86, 68, 77>>
Chr_comma == 44
Chr_bang == 33
Chr_star == 42
Chr_space == 32
Chr_at == 64
Chr_CR == 13
Chr_LF == 10
Chr_0 == 48
Chr_1 == 49
Chr_A == 65

Min(a, b) == IF a < b THEN a ELSE b

RECURSIVE Flatten(_)
Flatten(ss) == IF ss = <<>> THEN <<>> ELSE Head(ss) \o Flatten(Tail(ss))

\* '@' * n and ' ' * n
Repeat(c, n) == [i \in 1..(IF n > 0 THEN n ELSE 0) |-> c]

\* Python str(int) for a non-negative integer, as an f-string renders it
RECURSIVE IntToStr(_)
IntToStr(n) ==
    IF n < 10 THEN <<Chr_0 + n>> ELSE IntToStr(n \div 10) \o <<Chr_0 + (n % 10)>>

\* int(x): truncation toward zero of the fraction n/d (d > 0)
TruncDiv(n, d) == IF n >= 0 THEN n \div d ELSE -((-n) \div d)

RECURSIVE GCD(_, _)
GCD(a, b) == IF b = 0 THEN a ELSE GCD(b, a % b)

\* int(value * k) for a decimal value n/d: k/d is reduced first, which keeps the
\* product within the checker's integers and leaves the quotient unchanged
ScaledInt(value, k) ==
    LET g == GCD(k, value.d) IN TruncDiv(value.n * (k \div g), value.d \div g)

\* value < 0, value > c/10 for a decimal value
DecNegative(value) == value.n < 0
DecAboveTenths(value, c) == value.n * 10 > c * value.d

(***************************************************************************)
(* nmea_utils: the bit and ASCII primitives.                               *)
(***************************************************************************)
\* an integer fits an unsigned / a two's-complement field of bits_count bits
Representable(num, bits_count, signed) ==
    IF signed
    THEN -(2^(bits_count - 1)) <= num /\ num < 2^(bits_count - 1)
    ELSE 0 <= num /\ num < 2^bits_count

\* the bit field of exactly bits_count bits (two's complement when negative)
convert_int_to_bits(num, bits_count) ==
    LET u == IF num < 0 THEN num + 2^bits_count ELSE num
    IN  [i \in 1..bits_count |-> (u \div 2^(bits_count - i)) % 2]

\* unsigned value of a bit string
RECURSIVE convert_bits_to_int(_)
convert_bits_to_int(bits) ==
    IF bits = <<>> THEN 0
    ELSE 2 * convert_bits_to_int(SubSeq(bits, 1, Len(bits) - 1)) + bits[Len(bits)]

\* six-bit value -> ASCII code of the armored character
convert_decimal_to_ascii_code(decimal_num) ==
    IF decimal_num < 40 THEN decimal_num + 48 ELSE decimal_num + 56

\* chr(): characters are their ASCII codes here
get_char_of_ascii_code(ascii_code) == ascii_code

\* the characters of the AIS six-bit alphabet: '@'..'_' and ' '..'?'
Ascii6Chars == 32..95

\* ASCII char -> ASCII6 code
convert_ascii_char_to_ascii6_code(char) == IF char >= 64 THEN char - 64 ELSE char

\* right-pad with spaces to required_length
add_padding(text, required_length) ==
    text \o Repeat(Chr_space, required_length - Len(text))

\* right-pad a bit string with '0' bits; returns <<bits, number of bits added>>
add_padding_0_bits(bits_string, required_length) ==
    <<bits_string \o Repeat(0, required_length - Len(bits_string)),
      required_length - Len(bits_string)>>

XorByte(a, b) ==
    LET bit(x, i) == (x \div 2^i) % 2
        term(i) == IF bit(a, i) # bit(b, i) THEN 2^i ELSE 0
    IN  term(0) + term(1) + term(2) + term(3) + term(4) + term(5) + term(6) + term(7)

\* XOR of s[lo..hi], halving the range (a shallow recursion)
RECURSIVE XorRange(_, _, _)
XorRange(s, lo, hi) ==
    IF lo > hi THEN 0
    ELSE IF lo = hi THEN s[lo]
    ELSE LET mid == (lo + hi) \div 2
         IN  XorByte(XorRange(s, lo, mid), XorRange(s, mid + 1, hi))

XorAll(s) == XorRange(s, 1, Len(s))

HexDigit(v) == IF v < 10 THEN Chr_0 + v ELSE Chr_A + (v - 10)

\* XOR of every byte of the sentence body, as two uppercase hex digits
nmea_checksum(sentence_data) ==
    LET x == XorAll(sentence_data) IN <<HexDigit(x \div 16), HexDigit(x % 16)>>

\* textwrap.wrap(text, width) of a text without whitespace or hyphens
wrap(text, width) ==
    [k \in 1..((Len(text) + width - 1) \div width) |->
        SubSeq(text, (k - 1) * width + 1, Min(k * width, Len(text)))]

(***************************************************************************)
(* constants: field widths and the constants of message type 1.            *)
(***************************************************************************)
FieldBitsCountEnum ==
    [msg_type |-> 6, repeat_indicator |-> 2, mmsi |-> 30, nav_status |-> 4,
     rot |-> 8, speed |-> 10, pos_accuracy |-> 1, lon |-> 28, lat |-> 27,
     course |-> 12, true_heading |-> 9, timestamp |-> 6, maneuver |-> 2,
     spare_type_1 |-> 3, raim |-> 1, radio_status |-> 19]

AISMsgType1ConstsEnum ==
    [msg_type |-> 1, rot |-> 128, pos_accuracy |-> 1, maneuver |-> 0,
     spare_type_1 |-> 0, raim |-> 1, radio_status |-> 82419]

NavigationStatusEnum == 0..15

(***************************************************************************)
(* ais_utils: the structured sub-fields.                                   *)
(***************************************************************************)
\* ShipDimension.bits: 9 + 9 + 6 + 6 bits, each sub-field clamped to its maximum
ShipDimension_bits(dimension) ==
    convert_int_to_bits(Min(dimension.to_bow, 511), 9)
    \o convert_int_to_bits(Min(dimension.to_stern, 511), 9)
    \o convert_int_to_bits(Min(dimension.to_port, 63), 6)
    \o convert_int_to_bits(Min(dimension.to_starboard, 63), 6)

\* ShipEta.bits: 4 + 5 + 5 + 6 bits
ShipEta_bits(eta) ==
    convert_int_to_bits(eta.month, 4) \o convert_int_to_bits(eta.day, 5)
    \o convert_int_to_bits(eta.hour, 5) \o convert_int_to_bits(eta.minute, 6)

\* a keyword argument of a constructor, or the default when it is not given
kwarg(kw, key, default) == IF key \in DOMAIN kw THEN kw[key] ELSE default

\* the largest value each sub-field of ShipDimension holds
ShipDimension_max ==
    [to_bow |-> 511, to_stern |-> 511, to_port |-> 63, to_starboard |-> 63]

\* ShipDimension_store that keeps the value as given
ShipDimension_store_unclamped(field, value) == value

\* the value a sub-field of ShipDimension keeps of the value given to it
ShipDimension_store(field, value) == Min(value, ShipDimension_max[field])

\* a sub-field of ShipDimension or of ShipEta refuses a negative value
sub_field_error(field, value) ==
    IF value < 0 THEN [type |-> "Exception", field |-> field]
    ELSE [type |-> "", field |-> ""]

\* ShipDimension(**kw): a sub-field not given is 0
ShipDimension(kw) ==
    [kind |-> "ShipDimension",
     to_bow |-> ShipDimension_store("to_bow", kwarg(kw, "to_bow", 0)),
     to_stern |-> ShipDimension_store("to_stern", kwarg(kw, "to_stern", 0)),
     to_port |-> ShipDimension_store("to_port", kwarg(kw, "to_port", 0)),
     to_starboard |-> ShipDimension_store("to_starboard", kwarg(kw, "to_starboard", 0))]

\* ShipEta's sub-fields with all sentinels 0
ShipEta_default_zero == [month |-> 0, day |-> 0, hour |-> 0, minute |-> 0]

\* the "not available" value of each sub-field of ShipEta
ShipEta_default == [month |-> 0, day |-> 0, hour |-> 24, minute |-> 60]

\* ShipEta(**kw): a sub-field not given is "not available", other keys are ignored
ShipEta(kw) ==
    [kind |-> "ShipEta",
     month |-> kwarg(kw, "month", ShipEta_default.month),
     day |-> kwarg(kw, "day", ShipEta_default.day),
     hour |-> kwarg(kw, "hour", ShipEta_default.hour),
     minute |-> kwarg(kw, "minute", ShipEta_default.minute)]

(***************************************************************************)
(* AISMsgType5: the property setters.  Each setter is a pair: the error it *)
(* raises for a value ("" when it raises none) and the bits it stores.     *)
(***************************************************************************)
NoError == [type |-> "", field |-> ""]
Error(type, field) == [type |-> type, field |-> field]

\* one six-bit ASCII6 code per character, in order
ascii6_bits(text) ==
    Flatten([i \in 1..Len(text) |->
        convert_int_to_bits(convert_ascii_char_to_ascii6_code(text[i]), 6)])

\* text_error with the length check one character too lenient
text_error_lenient(text, required_char_count) ==
    IF Len(text) \notin 0..(required_char_count + 1) THEN "ValueError"
    ELSE IF \E i \in 1..Len(text) : text[i] \notin Ascii6Chars
         THEN "InvalidCharacterError"
         ELSE ""

\* the length check and the character mapping shared by the string setters
text_error(text, required_char_count) ==
    IF Len(text) \notin 0..required_char_count THEN "ValueError"
    ELSE IF \E i \in 1..Len(text) : text[i] \notin Ascii6Chars
         THEN "InvalidCharacterError"
         ELSE ""

\* text_padded that pads the empty text with spaces like any other
text_padded_spaces(text, required_char_count) ==
    add_padding(text, required_char_count)

text_padded(text, required_char_count) ==
    IF Len(text) = 0 THEN Repeat(Chr_at, required_char_count)
    ELSE add_padding(text, required_char_count)

mmsi_error(mmsi) == IF Representable(mmsi, 30, FALSE) THEN "" ELSE "RangeError"
mmsi_bits(mmsi) == convert_int_to_bits(mmsi, 30)

imo_error(value) == IF Representable(value, 30, FALSE) THEN "" ELSE "RangeError"
imo_bits(value) == convert_int_to_bits(value, 30)

call_sign_error(call_sign) == text_error(call_sign, 7)
\* <<bits stored, fill_bits written or -1 when the setter leaves fill_bits alone>>
call_sign_bits(call_sign) ==
    LET call_sign_bits_ == ascii6_bits(text_padded(call_sign, 7))
    IN  IF Len(call_sign_bits_) < 42
        THEN add_padding_0_bits(call_sign_bits_, 42)
        ELSE <<call_sign_bits_, -1>>

ship_name_error(ship_name) == text_error(ship_name, 20)
ship_name_bits(ship_name) == ascii6_bits(text_padded(ship_name, 20))

ship_type_error(value) == IF value \notin 1..99 THEN "ValueError" ELSE ""
ship_type_bits(value) == convert_int_to_bits(value, 8)

dimension_bits(dimension) == ShipDimension_bits(dimension)

eta_bits(eta) == ShipEta_bits(eta)

draught_error(value) == IF DecNegative(value) THEN "ValueError" ELSE ""
\* draught_bits with the ceiling one tenth too low
draught_bits_low_ceiling(value) ==
    LET v == IF DecAboveTenths(value, 255) THEN [n |-> 254, d |-> 10] ELSE value
    IN  convert_int_to_bits(ScaledInt(v, 10), 8)

draught_bits(value) ==
    LET v == IF DecAboveTenths(value, 255) THEN [n |-> 255, d |-> 10] ELSE value
    IN  convert_int_to_bits(ScaledInt(v, 10), 8)

destination_error(destination) == text_error(destination, 20)
destination_bits(destination) == ascii6_bits(text_padded(destination, 20))

\* AISMsgType5.__init__: the first setter that raises, in assignment order
AISMsgType5_error(t) ==
    IF mmsi_error(t.mmsi) # "" THEN Error(mmsi_error(t.mmsi), "mmsi")
    ELSE IF imo_error(t.imo) # "" THEN Error(imo_error(t.imo), "imo")
    ELSE IF call_sign_error(t.call_sign) # ""
         THEN Error(call_sign_error(t.call_sign), "call_sign")
    ELSE IF ship_name_error(t.ship_name) # ""
         THEN Error(ship_name_error(t.ship_name), "ship_name")
    ELSE IF ship_type_error(t.ship_type) # ""
         THEN Error(ship_type_error(t.ship_type), "ship_type")
    ELSE IF draught_error(t.draught) # ""
         THEN Error(draught_error(t.draught), "draught")
    ELSE IF destination_error(t.destination) # ""
         THEN Error(destination_error(t.destination), "destination")
    ELSE NoError

\* AISMsgType5.__init__: the object when no setter raises
AISMsgType5(t) ==
    LET cs == call_sign_bits(t.call_sign)
    IN  [kind |-> "AISMsgType5",
         repeat_indicator |-> convert_int_to_bits(0, 2),
         mmsi |-> mmsi_bits(t.mmsi),
         fill_bits |-> IF cs[2] >= 0 THEN cs[2] ELSE 0,
         msg_type |-> convert_int_to_bits(5, 6),
         ais_version |-> convert_int_to_bits(2, 2),
         imo |-> imo_bits(t.imo),
         call_sign |-> cs[1],
         ship_name |-> ship_name_bits(t.ship_name),
         ship_type |-> ship_type_bits(t.ship_type),
         dimension |-> dimension_bits(t.dimension),
         pos_fix_type |-> convert_int_to_bits(1, 4),
         eta |-> eta_bits(t.eta),
         draught |-> draught_bits(t.draught),
         destination |-> destination_bits(t.destination),
         dte |-> convert_int_to_bits(0, 1),
         spare |-> convert_int_to_bits(0, 1)]

\* payload_bits with ship_type and dimension in each other's place
payload_bits5_swapped(m) ==
    m.msg_type \o m.repeat_indicator \o m.mmsi \o m.ais_version \o m.imo
    \o m.call_sign \o m.ship_name \o m.dimension \o m.ship_type
    \o m.pos_fix_type \o m.eta \o m.draught \o m.destination \o m.dte \o m.spare

\* AISMsgType5.payload_bits
payload_bits5(m) ==
    m.msg_type \o m.repeat_indicator \o m.mmsi \o m.ais_version \o m.imo
    \o m.call_sign \o m.ship_name \o m.ship_type \o m.dimension
    \o m.pos_fix_type \o m.eta \o m.draught \o m.destination \o m.dte \o m.spare

(***************************************************************************)
(* AISMsgPayloadType1.                                                     *)
(***************************************************************************)
\* pydantic validation at construction: nav_status is a NavigationStatusEnum
AISMsgPayloadType1_error(t) ==
    IF t.nav_status \notin NavigationStatusEnum
    THEN Error("ValidationError", "nav_status")
    ELSE NoError

AISMsgPayloadType1(t) ==
    [kind |-> "AISMsgPayloadType1",
     repeat_indicator |-> 0,
     mmsi |-> t.mmsi,
     fill_bits |-> 0,
     nav_status |-> t.nav_status,
     speed |-> t.speed,
     lon |-> t.lon,
     lat |-> t.lat,
     course |-> t.course,
     true_heading |-> t.true_heading,
     timestamp |-> t.timestamp]

\* the integer each field is encoded from
fields_to_ints(m) ==
    [repeat_indicator |-> m.repeat_indicator,
     mmsi |-> m.mmsi,
     nav_status |-> m.nav_status,
     speed |-> ScaledInt(m.speed, 10),
     lon |-> ScaledInt(m.lon, 600000),
     lat |-> ScaledInt(m.lat, 600000),
     course |-> ScaledInt(m.course, 10),
     true_heading |-> m.true_heading,
     timestamp |-> m.timestamp]

Type1Fields ==
    <<"repeat_indicator", "mmsi", "nav_status", "speed", "lon", "lat", "course",
      "true_heading", "timestamp">>

\* _fields_to_bits raises at the first field that does not fit its width
fields_to_bits_error(m) ==
    LET ints == fields_to_ints(m)
        bad == {i \in 1..Len(Type1Fields) :
                  ~Representable(ints[Type1Fields[i]],
                                 FieldBitsCountEnum[Type1Fields[i]],
                                 Type1Fields[i] \in {"lon", "lat"})}
    IN  IF bad = {} THEN NoError
        ELSE Error("RangeError",
                   Type1Fields[CHOOSE i \in bad : \A j \in bad : i <= j])

\* AISMsgPayloadType1._fields_to_bits
fields_to_bits(m) ==
    LET ints == fields_to_ints(m)
    IN  [f \in DOMAIN ints |-> convert_int_to_bits(ints[f], FieldBitsCountEnum[f])]

\* AISMsgPayloadType1._constants_bits
constants_bits ==
    [name \in DOMAIN AISMsgType1ConstsEnum |->
        convert_int_to_bits(AISMsgType1ConstsEnum[name], FieldBitsCountEnum[name])]

\* AISMsgPayloadType1.payload_bits
payload_bits1(m) ==
    LET consts == constants_bits
        fields == fields_to_bits(m)
    IN  consts.msg_type \o fields.repeat_indicator \o fields.mmsi
        \o fields.nav_status \o consts.rot \o fields.speed \o consts.pos_accuracy
        \o fields.lon \o fields.lat \o fields.course \o fields.true_heading
        \o fields.timestamp \o consts.maneuver \o consts.spare_type_1
        \o consts.raim \o consts.radio_status

(***************************************************************************)
(* encode(): the six-bit armoring, the same code in both class trees.      *)
(***************************************************************************)
payload_bits(m) ==
    IF m.kind = "AISMsgType5" THEN payload_bits5(m) ELSE payload_bits1(m)

payload_bits_error(m) ==
    IF m.kind = "AISMsgType5" THEN NoError ELSE fields_to_bits_error(m)

payload_sixbits_list(m) == wrap(payload_bits(m), 6)

\* the armored character of one six-bit item, padded with '0' bits when short
armor_item(item) ==
    get_char_of_ascii_code(
        convert_decimal_to_ascii_code(
            convert_bits_to_int(item \o Repeat(0, 6 - Len(item)))))

\* the fill bits one pass of the loop adds to self.fill_bits
RECURSIVE fill_bits_added_in(_, _, _)
fill_bits_added_in(items, lo, hi) ==
    IF lo > hi THEN 0
    ELSE IF lo = hi THEN 6 - Len(items[lo])
    ELSE LET mid == (lo + hi) \div 2
         IN  fill_bits_added_in(items, lo, mid) + fill_bits_added_in(items, mid + 1, hi)

fill_bits_added(items) == fill_bits_added_in(items, 1, Len(items))

\* fill_bits after encode() on a message whose fill_bits was fill_bits
encode_fill_bits(fill_bits, items) == fill_bits + fill_bits_added(items)

\* encode() whose returned string carries the fill_bits found at the call
encode_stateful(m) ==
    LET items == payload_sixbits_list(m)
    IN  [payload |-> [i \in 1..Len(items) |-> armor_item(items[i])]
                     \o (IF m.fill_bits > 0 THEN IntToStr(m.fill_bits) ELSE <<>>),
         fill_bits |-> encode_fill_bits(m.fill_bits, items)]

\* encode(): [payload |-> the armored string, fill_bits |-> self.fill_bits after]
encode(m) ==
    LET items == payload_sixbits_list(m)
    IN  [payload |-> [i \in 1..Len(items) |-> armor_item(items[i])],
         fill_bits |-> encode_fill_bits(m.fill_bits, items)]

(***************************************************************************)
(* NMEAMessage: the sentence framer.                                       *)
(***************************************************************************)
\* NMEAMessage.__init__ splitting at the NMEA frame size instead of 60
NMEAMessage_wrap82(payload) ==
    LET payload_parts == wrap(payload, 82)
    IN  [kind |-> "NMEAMessage",
         nmea_msg_type |-> Str_AIVDM,
         payload_parts |-> payload_parts,
         number_of_sentences |-> Len(payload_parts),
         ais_channel |-> <<Chr_A>>]

\* NMEAMessage.__init__, given what payload.encode() returned
NMEAMessage(payload) ==
    LET payload_parts == wrap(payload, 60)
    IN  [kind |-> "NMEAMessage",
         nmea_msg_type |-> Str_AIVDM,
         payload_parts |-> payload_parts,
         number_of_sentences |-> Len(payload_parts),
         ais_channel |-> <<Chr_A>>]

\* the fill_bits value get_sentences() puts on sentence sentence_number
sentence_fill_bits(nm, fill_bits, sentence_number) ==
    IF sentence_number = nm.number_of_sentences THEN fill_bits ELSE 0

\* the fragment-group id given to single-sentence messages too
sequential_msg_id_always(nm) == IF nm.number_of_sentences >= 1 THEN <<Chr_1>> ELSE <<>>

\* the fragment-group id of every sentence of the message
sequential_msg_id(nm) == IF nm.number_of_sentences > 1 THEN <<Chr_1>> ELSE <<>>

\* the text the checksum is calculated from
sentence_data(nm, fill_bits, sentence_number) ==
    nm.nmea_msg_type \o <<Chr_comma>> \o IntToStr(nm.number_of_sentences)
    \o <<Chr_comma>> \o IntToStr(sentence_number)
    \o <<Chr_comma>> \o sequential_msg_id(nm)
    \o <<Chr_comma>> \o nm.ais_channel
    \o <<Chr_comma>> \o nm.payload_parts[sentence_number]
    \o <<Chr_comma>> \o IntToStr(sentence_fill_bits(nm, fill_bits, sentence_number))

\* the sentence with the checksum of the first sentence of the message
nmea_sentence_first_checksum(nm, fill_bits, sentence_number) ==
    LET sentence_data_ == sentence_data(nm, fill_bits, sentence_number)
    IN  <<Chr_bang>> \o sentence_data_ \o <<Chr_star>>
        \o nmea_checksum(sentence_data(nm, fill_bits, 1)) \o <<Chr_CR, Chr_LF>>

\* one pass of the loop of get_sentences(): the sentence it appends
nmea_sentence(nm, fill_bits, sentence_number) ==
    LET sentence_data_ == sentence_data(nm, fill_bits, sentence_number)
    IN  <<Chr_bang>> \o sentence_data_ \o <<Chr_star>>
        \o nmea_checksum(sentence_data_) \o <<Chr_CR, Chr_LF>>

(***************************************************************************)
(* State.                                                                  *)
(*   msg[id]   the message object id, [kind |-> "none"] before its         *)
(*             construction and [kind |-> "failed"] when its constructor   *)
(*             raised                                                      *)
(*   nmea[id]  the NMEAMessage wrapping msg[id], [kind |-> "none"] if none *)
(*   call[id]  the activation of nmea[id].get_sentences(): pc, the local   *)
(*             list nmea_sentences, and (pc = "done") the list returned    *)
(*   hist[id]  what the caller of msg[id] has seen: fill_bits after each   *)
(*             encode(), the string the last encode() returned, the last   *)
(*             request and the error it raised, the assignments made       *)
(***************************************************************************)
Ids == {"A", "B"}

NoObject == [kind |-> "none"]
Failed == [kind |-> "failed"]
IdleCall == [pc |-> "idle", nmea_sentences |-> <<>>]
NoHist ==
    [fills |-> <<>>, ret |-> <<>>, req |-> [op |-> ""], err |-> NoError,
     assigns |-> 0]

\* no sub-field object built yet
NoBlock == [obj |-> NoObject, req |-> [op |-> ""], err |-> NoError]

IsMessage(m) == m.kind \in {"AISMsgType5", "AISMsgPayloadType1"}

Init ==
    /\ msg = [id \in Ids |-> NoObject]
    /\ nmea = [id \in Ids |-> NoObject]
    /\ call = [id \in Ids |-> IdleCall]
    /\ hist = [id \in Ids |-> NoHist]
    /\ ship_dimension = NoBlock
    /\ ship_eta = NoBlock

\* the caller of id is between two calls
Ready(id) == IsMessage(msg[id]) /\ call[id].pc # "loop"

\* the caller of id may assign a field
MayAssign(id) == Ready(id) /\ hist[id].assigns < MaxAssign

\* AISMsgType5(**t)
Construct5(id, t) ==
    /\ msg[id].kind = "none"
    /\ LET e == AISMsgType5_error(t)
       IN  /\ msg' = [msg EXCEPT ![id] = IF e = NoError THEN AISMsgType5(t) ELSE Failed]
           /\ hist' = [hist EXCEPT ![id].req = [op |-> "AISMsgType5", arg |-> t],
                                   ![id].err = e]
    /\ UNCHANGED <<nmea, call, ship_dimension, ship_eta>>

\* AISMsgPayloadType1(**t)
Construct1(id, t) ==
    /\ msg[id].kind = "none"
    /\ LET e == AISMsgPayloadType1_error(t)
       IN  /\ msg' = [msg EXCEPT ![id] =
                        IF e = NoError THEN AISMsgPayloadType1(t) ELSE Failed]
           /\ hist' = [hist EXCEPT ![id].req = [op |-> "AISMsgPayloadType1", arg |-> t],
                                   ![id].err = e]
    /\ UNCHANGED <<nmea, call, ship_dimension, ship_eta>>

\* a property setter of AISMsgType5 that stores `bits` unless it raises `error`
Assign5(id, field, value, error, bits) ==
    /\ MayAssign(id)
    /\ msg[id].kind = "AISMsgType5"
    /\ msg' = [msg EXCEPT ![id] =
                 IF error = "" THEN [@ EXCEPT ![field] = bits] ELSE @]
    /\ hist' = [hist EXCEPT ![id].req = [op |-> field, arg |-> value],
                            ![id].err = IF error = "" THEN NoError ELSE Error(error, field),
                            ![id].assigns = @ + 1]
    /\ UNCHANGED <<nmea, call, ship_dimension, ship_eta>>

SetMmsi(id, v) == Assign5(id, "mmsi", v, mmsi_error(v), mmsi_bits(v))
SetImo(id, v) == Assign5(id, "imo", v, imo_error(v), imo_bits(v))
SetShipName(id, v) == Assign5(id, "ship_name", v, ship_name_error(v), ship_name_bits(v))
SetShipType(id, v) == Assign5(id, "ship_type", v, ship_type_error(v), ship_type_bits(v))
SetDimension(id, v) == Assign5(id, "dimension", v, "", dimension_bits(v))
SetEta(id, v) == Assign5(id, "eta", v, "", eta_bits(v))
SetDraught(id, v) == Assign5(id, "draught", v, draught_error(v), draught_bits(v))
SetDestination(id, v) ==
    Assign5(id, "destination", v, destination_error(v), destination_bits(v))

\* the call_sign setter also writes fill_bits when it pads the bits
SetCallSign(id, v) ==
    /\ MayAssign(id)
    /\ msg[id].kind = "AISMsgType5"
    /\ LET error == call_sign_error(v)
           cs == call_sign_bits(v)
       IN  /\ msg' = [msg EXCEPT ![id] =
                        IF error # "" THEN @
                        ELSE [@ EXCEPT !.call_sign = cs[1],
                                       !.fill_bits = IF cs[2] >= 0 THEN cs[2] ELSE @]]
           /\ hist' = [hist EXCEPT ![id].req = [op |-> "call_sign", arg |-> v],
                                   ![id].err = IF error = "" THEN NoError
                                               ELSE Error(error, "call_sign"),
                                   ![id].assigns = @ + 1]
    /\ UNCHANGED <<nmea, call, ship_dimension, ship_eta>>

\* assignment to a field of AISMsgPayloadType1 (pydantic validate_assignment)
Assign1(id, field, value) ==
    /\ MayAssign(id)
    /\ msg[id].kind = "AISMsgPayloadType1"
    /\ LET e == IF field = "nav_status" /\ value \notin NavigationStatusEnum
                THEN Error("ValidationError", field) ELSE NoError
       IN  /\ msg' = [msg EXCEPT ![id] =
                        IF e = NoError THEN [@ EXCEPT ![field] = value] ELSE @]
           /\ hist' = [hist EXCEPT ![id].req = [op |-> field, arg |-> value],
                                   ![id].err = e,
                                   ![id].assigns = @ + 1]
    /\ UNCHANGED <<nmea, call, ship_dimension, ship_eta>>

\* what a call of encode() on message m leaves behind
encoded_msg(m, r) == [m EXCEPT !.fill_bits = r.fill_bits]
encoded_hist(h, r, op) ==
    [h EXCEPT !.fills = Append(@, r.fill_bits), !.ret = r.payload,
              !.req = [op |-> op], !.err = NoError]

\* the messages after encode() when fill_bits is one counter of the class
msgs_after_encode_shared(ms, id, r) ==
    [i \in DOMAIN ms |->
        IF IsMessage(ms[i]) THEN [ms[i] EXCEPT !.fill_bits = r.fill_bits] ELSE ms[i]]

\* the messages after encode() ran on message id
msgs_after_encode(ms, id, r) == [ms EXCEPT ![id] = encoded_msg(@, r)]

\* msg.encode(), str(msg)
Encode(id) ==
    /\ Ready(id)
    /\ Len(hist[id].fills) < MaxEncodes
    /\ LET e == payload_bits_error(msg[id])
           r == encode(msg[id])
       IN  IF e # NoError
           THEN /\ hist' = [hist EXCEPT ![id].req = [op |-> "encode"], ![id].err = e]
                /\ UNCHANGED msg
           ELSE /\ msg' = msgs_after_encode(msg, id, r)
                /\ hist' = [hist EXCEPT ![id] = encoded_hist(@, r, "encode")]
    /\ UNCHANGED <<nmea, call, ship_dimension, ship_eta>>

\* NMEAMessage(msg)
NewNMEAMessage(id) ==
    /\ Ready(id)
    /\ Len(hist[id].fills) < MaxEncodes
    /\ LET e == payload_bits_error(msg[id])
           r == encode(msg[id])
       IN  IF e # NoError
           THEN /\ hist' = [hist EXCEPT ![id].req = [op |-> "NMEAMessage"], ![id].err = e]
                /\ UNCHANGED <<msg, nmea, call>>
           ELSE /\ msg' = msgs_after_encode(msg, id, r)
                /\ hist' = [hist EXCEPT ![id] = encoded_hist(@, r, "NMEAMessage")]
                /\ nmea' = [nmea EXCEPT ![id] = NMEAMessage(r.payload)]
                /\ call' = [call EXCEPT ![id] = IdleCall]
    /\ UNCHANGED <<ship_dimension, ship_eta>>

\* get_sentences(): entry, nmea_sentences = []
GetSentencesCall(id) ==
    /\ Ready(id)
    /\ nmea[id].kind = "NMEAMessage"
    /\ call' = [call EXCEPT ![id] = [pc |-> "loop", nmea_sentences |-> <<>>]]
    /\ UNCHANGED <<msg, nmea, hist, ship_dimension, ship_eta>>

\* get_sentences(): one pass of the loop over enumerate(self.payload_parts, 1)
GetSentencesLoop(id) ==
    /\ call[id].pc = "loop"
    /\ Len(call[id].nmea_sentences) < Len(nmea[id].payload_parts)
    /\ LET sentence_number == Len(call[id].nmea_sentences) + 1
       IN  call' = [call EXCEPT ![id].nmea_sentences =
                      Append(@, nmea_sentence(nmea[id], msg[id].fill_bits,
                                              sentence_number))]
    /\ UNCHANGED <<msg, nmea, hist, ship_dimension, ship_eta>>

\* get_sentences(): return nmea_sentences
GetSentencesReturn(id) ==
    /\ call[id].pc = "loop"
    /\ Len(call[id].nmea_sentences) = Len(nmea[id].payload_parts)
    /\ call' = [call EXCEPT ![id].pc = "done"]
    /\ UNCHANGED <<msg, nmea, hist, ship_dimension, ship_eta>>

\* ShipDimension(**kw) with no negative value
ConstructDimension(kw) ==
    /\ ship_dimension.obj = NoObject
    /\ ship_dimension' = [obj |-> ShipDimension(kw),
                          req |-> [op |-> "ShipDimension", arg |-> kw],
                          err |-> NoError]
    /\ UNCHANGED <<msg, nmea, call, hist, ship_eta>>

\* dim.<field> = value
AssignDimension(field, value) ==
    /\ ship_dimension.obj # NoObject
    /\ LET e == sub_field_error(field, value)
       IN  ship_dimension' =
               [obj |-> IF e = NoError
                        THEN [ship_dimension.obj EXCEPT
                                 ![field] = ShipDimension_store(field, value)]
                        ELSE ship_dimension.obj,
                req |-> [op |-> field, arg |-> value],
                err |-> e]
    /\ UNCHANGED <<msg, nmea, call, hist, ship_eta>>

\* ShipEta(**kw) with no negative value
ConstructEta(kw) ==
    /\ ship_eta.obj = NoObject
    /\ ship_eta' = [obj |-> ShipEta(kw),
                    req |-> [op |-> "ShipEta", arg |-> kw],
                    err |-> NoError]
    /\ UNCHANGED <<msg, nmea, call, hist, ship_dimension>>

\* eta.<field> = value
AssignEta(field, value) ==
    /\ ship_eta.obj # NoObject
    /\ LET e == sub_field_error(field, value)
       IN  ship_eta' =
               [obj |-> IF e = NoError THEN [ship_eta.obj EXCEPT ![field] = value]
                        ELSE ship_eta.obj,
                req |-> [op |-> field, arg |-> value],
                err |-> e]
    /\ UNCHANGED <<msg, nmea, call, hist, ship_dimension>>

(***************************************************************************)
(* Inputs.                                                                 *)
(***************************************************************************)
Dec(n, d) == [n |-> n, d |-> d]

Str_3FOF8 == <<51, 70, 79, 70, 56>>
Str_SQWD == <<83, 81, 87, 68>>
Str_STORM == <<83, 84, 79, 82, 77>>
Str_EVER_DIADEM == <<69, 86, 69, 82, 32, 68, 73, 65, 68, 69, 77>>
Str_NEW_YORK == <<78, 69, 87, 32, 89, 79, 82, 75>>
Str_BORNHOLM == <<66, 79, 82, 78, 72, 79, 76, 77>>
\* 'Z' * n
Str_Z(n) == Repeat(90, n)

Dimension0 == [to_bow |-> 225, to_stern |-> 70, to_port |-> 1, to_starboard |-> 31]
Dimension1 == [to_bow |-> 600, to_stern |-> 0, to_port |-> 100, to_starboard |-> 63]
Eta0 == [month |-> 5, day |-> 15, hour |-> 14, minute |-> 0]
Eta1 == [month |-> 0, day |-> 0, hour |-> 24, minute |-> 60]

Track5(call_sign, ship_name, ship_type, draught, destination) ==
    [mmsi |-> 205344990, imo |-> 9134270, call_sign |-> call_sign,
     ship_name |-> ship_name, ship_type |-> ship_type, dimension |-> Dimension0,
     eta |-> Eta0, draught |-> draught, destination |-> destination]

\* the accepted tracks, and one track for each way the constructor raises
Tracks5 ==
    {Track5(cs, Str_EVER_DIADEM, 70, dr, Str_NEW_YORK) :
        cs \in {<<>>, Str_3FOF8}, dr \in {Dec(122, 10), Dec(30, 1)}}
    \cup {Track5(Str_Z(7), Str_Z(20), 99, Dec(255, 10), Str_Z(20)),
          Track5(Str_Z(8), Str_STORM, 70, Dec(0, 1), <<>>),
          Track5(Str_3FOF8, Str_Z(21), 70, Dec(0, 1), <<>>),
          Track5(Str_3FOF8, Str_STORM, 70, Dec(0, 1), Str_Z(21)),
          Track5(Str_Z(8), Str_Z(21), 0, Dec(-1, 1), Str_Z(21)),
          Track5(Str_3FOF8, Str_STORM, 0, Dec(0, 1), <<>>),
          Track5(Str_3FOF8, Str_STORM, 70, Dec(-1, 1), <<>>),
          [Track5(Str_3FOF8, Str_STORM, 70, Dec(0, 1), <<>>) EXCEPT !.mmsi = 2^30]}

Track1(mmsi, nav_status, speed, lon, lat) ==
    [mmsi |-> mmsi, nav_status |-> nav_status, speed |-> speed, lon |-> lon,
     lat |-> lat, course |-> Dec(1107, 10), true_heading |-> 511, timestamp |-> 40]

Tracks1 ==
    {Track1(205344990, 15, Dec(0, 1), Dec(2644228, 600000), Dec(30737782, 600000)),
     Track1(261000001, 0, Dec(1022, 10), Dec(-180, 1), Dec(-1, 7)),
     Track1(205344990, 30, Dec(0, 1), Dec(0, 1), Dec(0, 1)),
     Track1(2^30, 5, Dec(0, 1), Dec(10, 1), Dec(90, 1))}

\* the smaller inputs of the specification of two messages
PairTracks5 == {Track5(Str_3FOF8, Str_EVER_DIADEM, 70, Dec(122, 10), Str_NEW_YORK)}
PairTracks1 ==
    {Track1(205344990, 15, Dec(0, 1), Dec(2644228, 600000), Dec(30737782, 600000))}

\* keyword arguments of ShipDimension: all, some, none of the sub-fields
DimensionKwargs ==
    {Dimension0, Dimension1,
     [to_bow |-> 511, to_stern |-> 512, to_port |-> 64, to_starboard |-> 0],
     [to_bow |-> 225, to_port |-> 1], <<>>}

DimensionFields == {"to_bow", "to_stern", "to_port", "to_starboard"}
DimensionValues == {-1, 0, 63, 64, 511, 600}

\* keyword arguments of ShipEta: all, some, none of the sub-fields, other keys
EtaKwargs ==
    {Eta0, Eta1, [month |-> 12, day |-> 10],
     [month |-> 12, xxx |-> 10, qqq |-> "www"],
     [hour |-> 0, minute |-> 0], [xxx |-> 10], <<>>}

\* values to assign to the sub-fields of ShipEta: in range, and negative
EtaValues ==
    [month |-> {-1, 0, 12}, day |-> {-1, 0, 31}, hour |-> {-1, 0, 24},
     minute |-> {-1, 0, 60}]

(***************************************************************************)
(* Specifications.  Spec follows one message object, A, over the full      *)
(* inputs; SpecPair follows two, A and B, used by independent callers.     *)
(***************************************************************************)
Setters(id) ==
    \/ \E v \in {205344990, 2^30} : SetMmsi(id, v)
    \/ \E v \in {9134270} : SetImo(id, v)
    \/ \E v \in {<<>>, Str_3FOF8, Str_Z(8)} : SetCallSign(id, v)
    \/ \E v \in {Str_STORM, Str_Z(21)} : SetShipName(id, v)
    \/ \E v \in {0, 70, 100} : SetShipType(id, v)
    \/ \E v \in {Dimension0} : SetDimension(id, v)
    \/ \E v \in {Eta0} : SetEta(id, v)
    \/ \E v \in {Dec(122, 10), Dec(256, 10), Dec(30, 1), Dec(-1, 10)} : SetDraught(id, v)
    \/ \E v \in {<<>>, Str_Z(21)} : SetDestination(id, v)
    \/ \E v \in {Dec(0, 1), Dec(1030, 10)} : Assign1(id, "speed", v)
    \/ \E v \in {15, 30} : Assign1(id, "nav_status", v)

Framer(id) ==
    \/ Encode(id)
    \/ NewNMEAMessage(id)
    \/ GetSentencesCall(id)
    \/ GetSentencesLoop(id)
    \/ GetSentencesReturn(id)

Next ==
    \/ \E t \in Tracks5 : Construct5("A", t)
    \/ \E t \in Tracks1 : Construct1("A", t)
    \/ Setters("A")
    \/ Framer("A")

Spec == Init /\ [][Next]_vars

\* the budget of encode() calls of one message object under SpecPair
PairBudget(id) == Len(hist[id].fills) < PairMaxEncodes

PairSetters(id) ==
    \/ \E v \in {Dec(30, 1)} : SetDraught(id, v)
    \/ \E v \in {Dec(1022, 10)} : Assign1(id, "speed", v)

NextPair ==
    \E id \in Ids :
        \/ \E t \in PairTracks5 : Construct5(id, t)
        \/ \E t \in PairTracks1 : Construct1(id, t)
        \/ PairSetters(id)
        \/ PairBudget(id) /\ Encode(id)
        \/ PairBudget(id) /\ NewNMEAMessage(id)
        \/ GetSentencesCall(id)
        \/ GetSentencesLoop(id)
        \/ GetSentencesReturn(id)

SpecPair == Init /\ [][NextPair]_vars

\* two message objects that are built, assigned to and encoded again and again
NextEncode ==
    \E id \in Ids :
        \/ \E t \in PairTracks5 : Construct5(id, t)
        \/ \E t \in PairTracks1 : Construct1(id, t)
        \/ PairSetters(id)
        \/ Encode(id)

SpecEncode == Init /\ [][NextEncode]_vars

\* one ShipDimension object, built and assigned to
NextDimension ==
    \/ \E kw \in DimensionKwargs : ConstructDimension(kw)
    \/ \E f \in DimensionFields, v \in DimensionValues : AssignDimension(f, v)

SpecDimension == Init /\ [][NextDimension]_vars

\* one ShipEta object, built and assigned to
NextEta ==
    \/ \E kw \in EtaKwargs : ConstructEta(kw)
    \/ \E f \in DOMAIN EtaValues : \E v \in EtaValues[f] : AssignEta(f, v)

SpecEta == Init /\ [][NextEta]_vars

(***************************************************************************)
(* Reading an emitted sentence back: '!' body '*' hh CR LF, the body being *)
(* comma-separated fields.                                                 *)
(***************************************************************************)
\* the sentences get_sentences() of message id has appended so far
Emitted(id) == call[id].nmea_sentences

\* the list get_sentences() returned
Returned(id) == call[id].pc = "done"

\* the text between '!' and '*'
BodyOf(s) == SubSeq(s, 2, Len(s) - 5)

CommasOf(b) == {i \in 1..Len(b) : b[i] = Chr_comma}

\* position of the k-th comma of b, 0 before the first and Len(b) + 1 past the last
CommaAt(b, k) ==
    IF k = 0 THEN 0
    ELSE IF k > Cardinality(CommasOf(b)) THEN Len(b) + 1
    ELSE CHOOSE i \in CommasOf(b) : Cardinality({j \in CommasOf(b) : j < i}) = k - 1

\* the k-th comma-separated field of b
FieldOf(b, k) == SubSeq(b, CommaAt(b, k - 1) + 1, CommaAt(b, k) - 1)

\* the zero bits needed to pad a payload of n bits to a multiple of six
TruePad(n) == (6 - (n % 6)) % 6

\* the true fill-bit count of message m
TrueFillBits(m) == TruePad(Len(payload_bits(m)))

Messages == {id \in Ids : IsMessage(msg[id])}
Type5s == {id \in Ids : msg[id].kind = "AISMsgType5"}
Type1s == {id \in Ids : msg[id].kind = "AISMsgPayloadType1"}
Wrapped == {id \in Ids : nmea[id].kind = "NMEAMessage"}

(***************************************************************************)
(* C1.  Calling encode() twice on the same message leaves fill_bits after  *)
(* the second call equal to fill_bits after the first call.                *)
(* The code adds the padding to self.fill_bits on every call, so this      *)
(* fails for a static/voyage message: 2 after the first call, 4 after the  *)
(* second.                                                                 *)
(***************************************************************************)
C1_EncodeIdempotent ==
    \A id \in Messages :
        Len(hist[id].fills) >= 2 => hist[id].fills[2] = hist[id].fills[1]

(***************************************************************************)
(* C2.  In every reachable state the fill_bits of a message is in 0..5.    *)
(* Three encode() calls on a static/voyage message leave it at 6.          *)
(***************************************************************************)
C2_FillBitsInRange ==
    \A id \in Messages : msg[id].fill_bits \in 0..5

(***************************************************************************)
(* C3.  Every sentence get_sentences() emits carries fill_bits 0, except   *)
(* the last, which carries the true fill-bit count of the message: the     *)
(* zero bits needed to pad payload_bits to the next multiple of six.       *)
(* After one more encode() or str() the last sentence carries 4, not 2.    *)
(***************************************************************************)
C3_SentenceFillBits ==
    \A id \in Wrapped :
        \A k \in 1..Len(Emitted(id)) :
            FieldOf(BodyOf(Emitted(id)[k]), 7) =
                IF k = nmea[id].number_of_sentences
                THEN IntToStr(TrueFillBits(msg[id]))
                ELSE IntToStr(0)

(***************************************************************************)
(* C4.  For every static/voyage message wrapped in an NMEAMessage,         *)
(* get_sentences() returns exactly two sentences whose chunks have 60 and  *)
(* 11 characters, both with a fragment-group id, fill_bits 0 on the first  *)
(* and 2 on the second.                                                    *)
(* The counts and the id hold; the 2 does not once encode() or str() ran   *)
(* on the message besides the call made by NMEAMessage.__init__.           *)
(***************************************************************************)
C4_Type5TwoSentences ==
    \A id \in Type5s \cap Wrapped :
        Returned(id) =>
            LET out == Emitted(id)
            IN  /\ Len(out) = 2
                /\ Len(FieldOf(BodyOf(out[1]), 6)) = 60
                /\ Len(FieldOf(BodyOf(out[2]), 6)) = 11
                /\ FieldOf(BodyOf(out[1]), 4) # <<>>
                /\ FieldOf(BodyOf(out[2]), 4) # <<>>
                /\ FieldOf(BodyOf(out[1]), 7) = IntToStr(0)
                /\ FieldOf(BodyOf(out[2]), 7) = IntToStr(2)

(***************************************************************************)
(* C5.  For every accepted input payload_bits of a position report is      *)
(* exactly 168 bits and its first encode() returns 28 characters with      *)
(* fill_bits 0; payload_bits of a static/voyage message is exactly 424     *)
(* bits and its first encode() returns 71 characters with fill_bits 2.     *)
(* The fields lie in the payload in the declared order, none omitted.      *)
(***************************************************************************)
\* <<field, width>> of the two payloads, in the declared order
Layout5 ==
    <<<<"msg_type", 6>>, <<"repeat_indicator", 2>>, <<"mmsi", 30>>,
      <<"ais_version", 2>>, <<"imo", 30>>, <<"call_sign", 42>>,
      <<"ship_name", 120>>, <<"ship_type", 8>>, <<"dimension", 30>>,
      <<"pos_fix_type", 4>>, <<"eta", 20>>, <<"draught", 8>>,
      <<"destination", 120>>, <<"dte", 1>>, <<"spare", 1>>>>

Layout1 ==
    <<<<"msg_type", 6>>, <<"repeat_indicator", 2>>, <<"mmsi", 30>>,
      <<"nav_status", 4>>, <<"rot", 8>>, <<"speed", 10>>, <<"pos_accuracy", 1>>,
      <<"lon", 28>>, <<"lat", 27>>, <<"course", 12>>, <<"true_heading", 9>>,
      <<"timestamp", 6>>, <<"maneuver", 2>>, <<"spare_type_1", 3>>,
      <<"raim", 1>>, <<"radio_status", 19>>>>

\* the bits before entry k of a layout
RECURSIVE OffsetIn(_, _)
OffsetIn(layout, k) == IF k = 1 THEN 0 ELSE OffsetIn(layout, k - 1) + layout[k - 1][2]

\* entry k of the layout, cut out of the payload
SliceOf(bits, layout, k) ==
    SubSeq(bits, OffsetIn(layout, k) + 1, OffsetIn(layout, k) + layout[k][2])

\* the bits of a named field of a position report
Bits1(m, name) ==
    IF name \in DOMAIN AISMsgType1ConstsEnum
    THEN convert_int_to_bits(AISMsgType1ConstsEnum[name], FieldBitsCountEnum[name])
    ELSE fields_to_bits(m)[name]

C5_PayloadLayout ==
    \A id \in Messages :
        payload_bits_error(msg[id]) = NoError =>
            LET m == msg[id]
                five == m.kind = "AISMsgType5"
                bits == payload_bits(m)
                layout == IF five THEN Layout5 ELSE Layout1
            IN  /\ Len(bits) = IF five THEN 424 ELSE 168
                /\ \A k \in 1..Len(layout) :
                       SliceOf(bits, layout, k) =
                           IF five THEN m[layout[k][1]] ELSE Bits1(m, layout[k][1])
                /\ five => SliceOf(bits, Layout5, 1) = convert_int_to_bits(5, 6)
                /\ Len(hist[id].fills) >= 1 =>
                       hist[id].fills[1] = IF five THEN 2 ELSE 0
                /\ Len(hist[id].fills) = 1 =>
                       Len(hist[id].ret) = IF five THEN 71 ELSE 28

C5_Witness ==
    \E id \in Type5s :
        /\ Len(hist[id].fills) = 1
        /\ Len(hist[id].ret) = 71
        /\ msg[id].fill_bits = 2

(***************************************************************************)
(* C6.  In the list get_sentences() returns: when it holds more than one   *)
(* sentence every sentence carries the fragment-group id '1'; when it      *)
(* holds exactly one, the fragment-group-id field of that one is empty.    *)
(***************************************************************************)
C6_FragmentGroupId ==
    \A id \in Wrapped :
        Returned(id) =>
            \A k \in 1..Len(Emitted(id)) :
                FieldOf(BodyOf(Emitted(id)[k]), 4) =
                    IF Len(Emitted(id)) > 1 THEN <<Chr_1>> ELSE <<>>

C6_Witness ==
    \E id \in Wrapped :
        /\ Returned(id)
        /\ Len(Emitted(id)) = 2
        /\ FieldOf(BodyOf(Emitted(id)[2]), 4) = <<Chr_1>>

(***************************************************************************)
(* C7.  The framer splits the armored payload into chunks of at most 60    *)
(* characters whose concatenation, in order, is the armored payload; the   *)
(* sentence count is the number of chunks; get_sentences() emits one       *)
(* sentence per chunk, in order, sentence i carrying chunk i and index i,  *)
(* and returns only once the last chunk has been emitted.                  *)
(***************************************************************************)
C7_ChunksAndOrder ==
    \A id \in Wrapped :
        LET nm == nmea[id]
            out == Emitted(id)
        IN  /\ \A k \in 1..Len(nm.payload_parts) :
                   Len(nm.payload_parts[k]) \in 1..60
            /\ (hist[id].req.op = "NMEAMessage" /\ hist[id].err = NoError) =>
                   Flatten(nm.payload_parts) = hist[id].ret
            /\ nm.number_of_sentences = Len(nm.payload_parts)
            /\ Len(out) <= nm.number_of_sentences
            /\ \A k \in 1..Len(out) :
                   /\ FieldOf(BodyOf(out[k]), 6) = nm.payload_parts[k]
                   /\ FieldOf(BodyOf(out[k]), 3) = IntToStr(k)
                   /\ FieldOf(BodyOf(out[k]), 2) = IntToStr(Len(nm.payload_parts))
            /\ Returned(id) => Len(out) = Len(nm.payload_parts)

C7_Witness ==
    \E id \in Wrapped :
        /\ Returned(id)
        /\ Len(nmea[id].payload_parts) = 2
        /\ Len(Emitted(id)) = 2
        /\ FieldOf(BodyOf(Emitted(id)[2]), 3) = IntToStr(2)

(***************************************************************************)
(* C8.  Every sentence get_sentences() emits is '!' body '*' checksum      *)
(* CR LF, the body being the seven comma-separated fields AIVDM, sentence  *)
(* count, sentence index, fragment-group id, channel, chunk, fill_bits,    *)
(* and the checksum being that of this sentence's own body.                *)
(***************************************************************************)
IsHexDigit(c) == c \in 48..57 \/ c \in 65..70
IsNumber(f) == f # <<>> /\ \A i \in 1..Len(f) : f[i] \in 48..57

C8_SentenceForm ==
    \A id \in Wrapped :
        \A k \in 1..Len(Emitted(id)) :
            LET s == Emitted(id)[k]
                n == Len(s)
                b == BodyOf(s)
            IN  /\ s[1] = Chr_bang
                /\ s[n - 4] = Chr_star
                /\ IsHexDigit(s[n - 3]) /\ IsHexDigit(s[n - 2])
                /\ <<s[n - 3], s[n - 2]>> = nmea_checksum(b)
                /\ <<s[n - 1], s[n]>> = <<Chr_CR, Chr_LF>>
                /\ Chr_star \notin {b[i] : i \in 1..Len(b)}
                /\ Cardinality(CommasOf(b)) = 6
                /\ FieldOf(b, 1) = Str_AIVDM
                /\ IsNumber(FieldOf(b, 2))
                /\ FieldOf(b, 3) = IntToStr(k)
                /\ FieldOf(b, 4) \in {<<>>, <<Chr_1>>}
                /\ FieldOf(b, 5) = <<Chr_A>>
                /\ FieldOf(b, 6) = nmea[id].payload_parts[k]
                /\ IsNumber(FieldOf(b, 7))

C8_Witness ==
    \E id \in Wrapped :
        /\ Returned(id)
        /\ Len(Emitted(id)) = 2
        /\ BodyOf(Emitted(id)[1]) # BodyOf(Emitted(id)[2])
        /\ nmea_checksum(BodyOf(Emitted(id)[1])) # nmea_checksum(BodyOf(Emitted(id)[2]))

(***************************************************************************)
(* C9.  No state is shared between distinct message objects: a call on one *)
(* message (encode, a field assignment, a step of get_sentences) leaves    *)
(* the fill_bits, the payload bits and the emitted sentences of the other  *)
(* unchanged, so that what a message shows is what its own calls made of   *)
(* it: its fill_bits is the one its own last encode() left, and the last   *)
(* sentence it emits carries a count its own encode() calls produced.      *)
(***************************************************************************)
ObjectsOf(id) == <<msg[id], nmea[id], call[id], hist[id]>>

OwnResults ==
    \A id \in Messages :
        /\ msg[id].fill_bits =
               IF hist[id].fills = <<>> THEN 0
               ELSE hist[id].fills[Len(hist[id].fills)]
        /\ \A k \in 1..Len(hist[id].fills) :
               hist[id].fills[k] = k * TrueFillBits(msg[id])
        /\ id \in Wrapped =>
               \A k \in 1..Len(Emitted(id)) :
                   k = nmea[id].number_of_sentences =>
                       \E j \in 1..Len(hist[id].fills) :
                           FieldOf(BodyOf(Emitted(id)[k]), 7) =
                               IntToStr(hist[id].fills[j])

C9_NoSharedState ==
    /\ []OwnResults
    /\ [][Cardinality({id \in Ids : ObjectsOf(id)' # ObjectsOf(id)}) <= 1]_vars

C9_Witness ==
    /\ Type5s # {}
    /\ \A id \in Ids : id \in Wrapped /\ Returned(id) /\ hist[id].fills # <<>>

(***************************************************************************)
(* C10.  A call_sign longer than 7 characters, or a ship_name or           *)
(* destination longer than 20, makes the static/voyage builder fail with   *)
(* LengthError where the offending field is encoded, and no sentence is    *)
(* ever emitted for a message that failed to encode.                       *)
(* The code raises ValueError there; the rest holds.                       *)
(***************************************************************************)
StringLimit == [call_sign |-> 7, ship_name |-> 20, destination |-> 20]
StringFields == <<"call_sign", "ship_name", "destination">>

\* the string fields of track t that are too long, in assignment order
TooLong(t) == {k \in 1..3 : Len(t[StringFields[k]]) > StringLimit[StringFields[k]]}
FirstTooLong(t) == StringFields[CHOOSE k \in TooLong(t) : \A j \in TooLong(t) : k <= j]

\* nothing but the strings of track t makes the constructor raise
OnlyStringsBad(t) ==
    /\ mmsi_error(t.mmsi) = "" /\ imo_error(t.imo) = ""
    /\ ship_type_error(t.ship_type) = "" /\ draught_error(t.draught) = ""

\* the error of a too long string is of type `type`
LengthFailure(type) ==
    \A id \in Ids :
        LET h == hist[id]
        IN  /\ (h.req.op = "AISMsgType5" /\ TooLong(h.req.arg) # {}) =>
                   /\ msg[id] = Failed
                   /\ h.err.type # ""
                   /\ OnlyStringsBad(h.req.arg) =>
                          h.err = Error(type, FirstTooLong(h.req.arg))
                   /\ "call_sign" \in {StringFields[k] : k \in TooLong(h.req.arg)}
                          /\ mmsi_error(h.req.arg.mmsi) = ""
                          /\ imo_error(h.req.arg.imo) = ""
                          => h.err = Error(type, "call_sign")
            /\ (h.req.op \in DOMAIN StringLimit /\ Len(h.req.arg) > StringLimit[h.req.op]) =>
                   h.err = Error(type, h.req.op)

\* a message whose construction or encoding failed has no sentence
NothingEmittedOnFailure ==
    \A id \in Ids :
        /\ msg[id] = Failed => nmea[id] = NoObject /\ Emitted(id) = <<>>
        /\ (IsMessage(msg[id]) /\ payload_bits_error(msg[id]) # NoError
               /\ hist[id].fills = <<>>) =>
               nmea[id] = NoObject /\ Emitted(id) = <<>>
        /\ msg[id].kind = "AISMsgType5" =>
               /\ Len(msg[id].call_sign) = 42
               /\ Len(msg[id].ship_name) = 120
               /\ Len(msg[id].destination) = 120

C10_LengthError == LengthFailure("LengthError") /\ NothingEmittedOnFailure

C10_ValueError == LengthFailure("ValueError") /\ NothingEmittedOnFailure

C10_Witness ==
    \E id \in Ids :
        /\ msg[id] = Failed
        /\ hist[id].req.op = "AISMsgType5"
        /\ Len(hist[id].req.arg.call_sign) = 8
        /\ OnlyStringsBad(hist[id].req.arg)
        /\ hist[id].err = Error("ValueError", "call_sign")

(***************************************************************************)
(* C11.  The static/voyage builder does not re-validate the ship type:     *)
(* every ship_type the validation layer accepts (0 included) that fits the *)
(* 8-bit field is stored without error, by the constructor and by the      *)
(* setter, and the builder raises on ship_type only when the value does    *)
(* not fit the 8 bits.                                                     *)
(* The setter raises ValueError outside 1..99, so for 0.                   *)
(***************************************************************************)
\* the ship types the validation layer lets through (tests: 0 passes, 100 fails)
ValidatedShipTypes == 0..99

C11_ShipTypeNotRevalidated ==
    \A id \in Ids :
        LET h == hist[id]
        IN  /\ (h.req.op = "AISMsgType5"
                   /\ h.req.arg.ship_type \in ValidatedShipTypes
                   /\ Representable(h.req.arg.ship_type, 8, FALSE)) =>
                   h.err.field # "ship_type"
            /\ (h.req.op = "ship_type"
                   /\ h.req.arg \in ValidatedShipTypes
                   /\ Representable(h.req.arg, 8, FALSE)) =>
                   /\ h.err = NoError
                   /\ msg[id].ship_type = convert_int_to_bits(h.req.arg, 8)
            /\ (h.req.op = "ship_type" /\ h.err # NoError) =>
                   ~Representable(h.req.arg, 8, FALSE)

(***************************************************************************)
(* C12.  Draught is clamped above its ceiling and rejected below zero:     *)
(* every draught greater than 25.5, given to the constructor or to the     *)
(* setter, raises no error and stores the 8-bit field of draught 25.5, the *)
(* encoding of 255; every draught below 0 raises.                          *)
(***************************************************************************)
\* the other fields of track t let the constructor reach the draught setter
DraughtReached(t) ==
    /\ mmsi_error(t.mmsi) = "" /\ imo_error(t.imo) = ""
    /\ call_sign_error(t.call_sign) = "" /\ ship_name_error(t.ship_name) = ""
    /\ ship_type_error(t.ship_type) = ""

C12_DraughtClamp ==
    \A id \in Ids :
        LET h == hist[id]
        IN  /\ (h.req.op = "AISMsgType5" /\ DraughtReached(h.req.arg)) =>
                   /\ DecAboveTenths(h.req.arg.draught, 255) =>
                          /\ h.err.field # "draught"
                          /\ h.err = NoError =>
                                 /\ msg[id].draught = convert_int_to_bits(255, 8)
                                 /\ msg[id].draught = draught_bits(Dec(255, 10))
                   /\ DecNegative(h.req.arg.draught) =>
                          /\ h.err.field = "draught" /\ h.err.type # ""
                          /\ msg[id] = Failed
            /\ h.req.op = "draught" =>
                   /\ DecAboveTenths(h.req.arg, 255) =>
                          /\ h.err = NoError
                          /\ msg[id].draught = convert_int_to_bits(255, 8)
                          /\ msg[id].draught = draught_bits(Dec(255, 10))
                   /\ DecNegative(h.req.arg) =>
                          h.err.field = "draught" /\ h.err.type # ""

C12_Witness ==
    \E id \in Ids :
        /\ hist[id].req.op = "draught"
        /\ hist[id].req.arg = Dec(30, 1)
        /\ hist[id].err = NoError
        /\ msg[id].draught = convert_int_to_bits(255, 8)

(***************************************************************************)
(* C13.  A ShipDimension object, after its construction and after any      *)
(* assignments of non-negative values to its sub-fields, holds             *)
(* min(given, 511) in to_bow and to_stern and min(given, 63) in to_port    *)
(* and to_starboard, with no error; an assignment of a negative value      *)
(* raises; bits is always 30 bits: the 9 bits of to_bow, the 9 of          *)
(* to_stern, the 6 of to_port and the 6 of to_starboard, in that order.    *)
(***************************************************************************)
\* min(given, ceiling) written out per sub-field
Clamped(field, value) ==
    IF field \in {"to_bow", "to_stern"}
    THEN (IF value > 511 THEN 511 ELSE value)
    ELSE (IF value > 63 THEN 63 ELSE value)

C13_DimensionClamp ==
    LET d == ship_dimension.obj
        r == ship_dimension.req
        b == ShipDimension_bits(d)
    IN  d # NoObject =>
            /\ d.to_bow \in 0..511 /\ d.to_stern \in 0..511
            /\ d.to_port \in 0..63 /\ d.to_starboard \in 0..63
            /\ r.op = "ShipDimension" =>
                   /\ ship_dimension.err = NoError
                   /\ \A f \in DimensionFields :
                          d[f] = IF f \in DOMAIN r.arg THEN Clamped(f, r.arg[f]) ELSE 0
            /\ (r.op \in DimensionFields /\ r.arg >= 0) =>
                   /\ ship_dimension.err = NoError
                   /\ d[r.op] = Clamped(r.op, r.arg)
            /\ (r.op \in DimensionFields /\ r.arg < 0) =>
                   ship_dimension.err.type # ""
            /\ Len(b) = 30
            /\ convert_bits_to_int(SubSeq(b, 1, 9)) = d.to_bow
            /\ convert_bits_to_int(SubSeq(b, 10, 18)) = d.to_stern
            /\ convert_bits_to_int(SubSeq(b, 19, 24)) = d.to_port
            /\ convert_bits_to_int(SubSeq(b, 25, 30)) = d.to_starboard

C13_Witness ==
    /\ ship_dimension.req = [op |-> "to_port", arg |-> 600]
    /\ ship_dimension.obj.to_port = 63
    /\ ship_dimension.obj.to_bow = 511
    /\ ship_dimension.err = NoError

(***************************************************************************)
(* C14.  A ShipEta object built from keyword arguments holds the           *)
(* not-available value in every sub-field the caller left out, also when   *)
(* other keys were given instead (month 0, day 0, hour 24, minute 60), and *)
(* the given value in every sub-field the caller gave; bits is always 20   *)
(* bits: the 4 bits of month, the 5 of day, the 5 of hour and the 6 of     *)
(* minute, in that order.                                                  *)
(***************************************************************************)
C14_EtaDefaults ==
    LET e == ship_eta.obj
        r == ship_eta.req
        b == ShipEta_bits(e)
    IN  e # NoObject =>
            /\ r.op = "ShipEta" =>
                   /\ ship_eta.err = NoError
                   /\ e.month = IF "month" \in DOMAIN r.arg THEN r.arg.month ELSE 0
                   /\ e.day = IF "day" \in DOMAIN r.arg THEN r.arg.day ELSE 0
                   /\ e.hour = IF "hour" \in DOMAIN r.arg THEN r.arg.hour ELSE 24
                   /\ e.minute = IF "minute" \in DOMAIN r.arg THEN r.arg.minute ELSE 60
            /\ Len(b) = 20
            /\ convert_bits_to_int(SubSeq(b, 1, 4)) = e.month
            /\ convert_bits_to_int(SubSeq(b, 5, 9)) = e.day
            /\ convert_bits_to_int(SubSeq(b, 10, 14)) = e.hour
            /\ convert_bits_to_int(SubSeq(b, 15, 20)) = e.minute

C14_Witness ==
    /\ ship_eta.req.op = "ShipEta"
    /\ DOMAIN ship_eta.req.arg = {"month", "xxx", "qqq"}
    /\ ship_eta.obj.month = 12 /\ ship_eta.obj.day = 0
    /\ ship_eta.obj.hour = 24 /\ ship_eta.obj.minute = 60
    /\ ShipEta_bits(ship_eta.obj) =
           <<1, 1, 0, 0,  0, 0, 0, 0, 0,  1, 1, 0, 0, 0,  1, 1, 1, 1, 0, 0>>

(***************************************************************************)
(* C15.  For call_sign (N = 7), ship_name and destination (N = 20) and     *)
(* every accepted text of 0..N characters, given to the constructor or to  *)
(* the setter: the stored bit field has exactly 6 * N bits, one six-bit    *)
(* ASCII6 code per character, in order, of N '@' when the text is empty    *)
(* and of the text followed by spaces up to N characters otherwise.        *)
(***************************************************************************)
\* character k of the N characters the field of text t stands for
PaddedChar(t, k) ==
    IF Len(t) = 0 THEN 64 ELSE IF k <= Len(t) THEN t[k] ELSE 32

\* bits is the field of text t at N characters
IsPaddedField(bits, t, N) ==
    /\ Len(bits) = 6 * N
    /\ \A k \in 1..N :
           convert_bits_to_int(SubSeq(bits, 6 * k - 5, 6 * k)) = PaddedChar(t, k) % 64

C15_StringPadding ==
    \A id \in Ids :
        LET h == hist[id]
        IN  /\ (h.req.op = "AISMsgType5" /\ h.err = NoError) =>
                   \A k \in 1..3 :
                       IsPaddedField(msg[id][StringFields[k]],
                                     h.req.arg[StringFields[k]],
                                     StringLimit[StringFields[k]])
            /\ (h.req.op \in DOMAIN StringLimit /\ Len(h.req.arg) <= StringLimit[h.req.op]) =>
                   /\ h.err = NoError
                   /\ IsPaddedField(msg[id][h.req.op], h.req.arg, StringLimit[h.req.op])

C15_Witness ==
    \E id \in Ids :
        /\ hist[id].req = [op |-> "ship_name", arg |-> Str_STORM]
        /\ hist[id].err = NoError
        /\ Len(msg[id].ship_name) = 120
        /\ SubSeq(msg[id].ship_name, 1, 6) = <<0, 1, 0, 0, 1, 1>>
        /\ \A k \in 6..20 :
               SubSeq(msg[id].ship_name, 6 * k - 5, 6 * k) = <<1, 0, 0, 0, 0, 0>>
        /\ msg[id].call_sign \in {Repeat(0, 42)}

(***************************************************************************)
(* C16.  encode() returns a pure function of the field values: a call of   *)
(* encode() that follows another on a message, with no assignment in       *)
(* between, returns the same armored string whatever fill_bits has become, *)
(* and two messages holding equal field values return equal armored        *)
(* strings.                                                                *)
(***************************************************************************)
\* the last call on message id was an encode() that returned hist[id].ret
LastWasEncode(id) ==
    /\ IsMessage(msg[id])
    /\ hist[id].req.op = "encode"
    /\ hist[id].err = NoError

\* the field values of a message, fill_bits left out
FieldsOf(m) == [m EXCEPT !.fill_bits = 0]

SameFieldsSameString ==
    \A a, b \in Ids :
        (LastWasEncode(a) /\ LastWasEncode(b) /\ FieldsOf(msg[a]) = FieldsOf(msg[b])) =>
            hist[a].ret = hist[b].ret

RepeatedEncodeSameString ==
    \A id \in Ids :
        (LastWasEncode(id) /\ LastWasEncode(id)'
            /\ Len(hist[id].fills') = Len(hist[id].fills) + 1) =>
            /\ FieldsOf(msg[id]') = FieldsOf(msg[id])
            /\ hist[id].ret' = hist[id].ret

C16_EncodePure == []SameFieldsSameString /\ [][RepeatedEncodeSameString]_vars

C16_Witness ==
    /\ LastWasEncode("A") /\ LastWasEncode("B")
    /\ msg["A"].kind = "AISMsgType5"
    /\ FieldsOf(msg["A"]) = FieldsOf(msg["B"])
    /\ hist["A"].fills = <<2>>
    /\ hist["B"].fills = <<2, 4, 6>>
    /\ hist["A"].ret = hist["B"].ret
    /\ Len(hist["A"].ret) = 71

====
